---- MODULE Spec2Model ----
(***************************************************************************)
(* Model of the two migration utilities of java-app-tool:                  *)
(*   fix_duplicate_biz_exception_codes.py  (the Duplicate Resolver)        *)
(*   convert_exceptions.py                 (the Pattern Rewriter)          *)
(* Source text is modelled as sequences of lexical tokens; the regular     *)
(* expressions and str.replace calls of the code act on those sequences.   *)
(***************************************************************************)
EXTENDS Integers, Sequences, FiniteSets, TLC

VARIABLES
    tree,        \* Resolver: files on disk, path -> sequence of lines
    tree0,       \* Resolver: the files as they were when the run started
    pc,          \* Resolver: position in main()
    fix,         \* Resolver: args.fix
    occs,        \* Resolver: code_locations of the run, in insertion order
    changes,     \* Resolver: Change Records returned by fix_duplicates
    exit_code,   \* Resolver: value returned by main()
    occs2,       \* Resolver: code_locations of a later re-scan of the tree
    gen_known,   \* generate_new_code: existing_codes, as [fill, extra]
    gen_prefix,  \* generate_new_code: date_prefix
    gen_counter, \* generate_new_code: counter
    gen_pc,      \* generate_new_code: "loop" or "returned"
    gen_result,  \* generate_new_code: the returned code
    w_disk,      \* Rewriter: files on disk, path -> text
    w_pc,        \* Rewriter: position in main()
    w_args,      \* Rewriter: parsed command line
    w_files,     \* Rewriter: java_files
    w_idx,       \* Rewriter: index in java_files of the next file
    w_counter,   \* Rewriter: counter
    w_exit,      \* Rewriter: value returned by main()
    w_run,       \* Rewriter: 1 in the first run over the disk, 2 in the second
    w_hist       \* Rewriter: one record per process_file call made so far

rvars == <<tree, tree0, pc, fix, occs, changes, exit_code, occs2>>
gvars == <<gen_known, gen_prefix, gen_counter, gen_pc, gen_result>>
wvars == <<w_disk, w_pc, w_args, w_files, w_idx, w_counter, w_exit, w_run, w_hist>>
vars  == <<rvars, gvars, wvars>>

----------------------------------------------------------------------------
(* Bounds of the model *)

MaxFiles == 2     \* files in the scanned tree
MaxLines == 2     \* lines in the scanned tree, over all its files
MaxFallback == 1  \* counters from 10000 on whose codes may be taken already
MaxFrags == 2     \* text fragments on the Rewriter's disk, over all its files

----------------------------------------------------------------------------
(* Strings of decimal digits *)

Digit == {"0", "1", "2", "3", "4", "5", "6", "7", "8", "9"}

DigitChar(d) == <<"0", "1", "2", "3", "4", "5", "6", "7", "8", "9">>[d + 1]

RECURSIVE DigitsOf(_)
DigitsOf(n) ==
    IF n < 10 THEN <<DigitChar(n)>>
    ELSE DigitsOf(n \div 10) \o <<DigitChar(n % 10)>>

RECURSIVE ZeroPad(_, _)
ZeroPad(s, w) == IF Len(s) >= w THEN s ELSE ZeroPad(<<"0">> \o s, w)

\* Python's f"{n:0wd}": sign, then zeros up to a total width of w.
Fmt(n, w) ==
    IF n >= 0 THEN ZeroPad(DigitsOf(n), w)
    ELSE <<"-">> \o ZeroPad(DigitsOf(0 - n), w - 1)

----------------------------------------------------------------------------
(* Lines of Java text as token sequences (Resolver) *)

WS      == " "
KW      == "private static final long"
ERR     == "ERROR_"
FAILED  == "BizException.failed"
TXT     == "msg"

WordTok == Digit \cup {"L", "X", ERR}

At(line, i) == IF i >= 1 /\ i <= Len(line) THEN line[i] ELSE "<eol>"

\* line[a..b], short of the end of the line where b lies beyond it
Slice(line, a, b) ==
    IF b < a THEN <<>> ELSE [k \in 1..(b - a + 1) |-> At(line, a + k - 1)]

RECURSIVE RunEnd(_, _, _)
\* index just past the maximal run of tokens of S that starts at i
RunEnd(line, i, S) ==
    IF At(line, i) \in S THEN RunEnd(line, i + 1, S) ELSE i

SkipWs(line, i) == RunEnd(line, i, {WS})

\* first index >= i at which pat occurs in line as a contiguous run, 0 if none
RECURSIVE Find(_, _, _)
Find(line, pat, i) ==
    IF i + Len(pat) - 1 > Len(line) THEN 0
    ELSE IF SubSeq(line, i, i + Len(pat) - 1) = pat THEN i
    ELSE Find(line, pat, i + 1)

\* Python's `pat in line`
Contains(line, pat) == Find(line, pat, 1) # 0

\* Python's line.replace(old, new, 1)
Replace1(line, old, new) ==
    LET i == Find(line, old, 1) IN
    IF i = 0 THEN line
    ELSE SubSeq(line, 1, i - 1) \o new \o SubSeq(line, i + Len(old), Len(line))

----------------------------------------------------------------------------
(* The two scan patterns of find_all_error_codes *)

\* private\s+static\s+final\s+long\s+(ERROR_\w+)\s*=\s*(\d+)L?\s*;  tried at i
MatchConst(line, i) ==
    LET a == i + 1
        b == SkipWs(line, a)
        c == b + 1
        d == RunEnd(line, c, WordTok)
        e == SkipWs(line, d)
        g == SkipWs(line, e + 1)
        h == RunEnd(line, g, Digit)
        k == IF At(line, h) = "L" THEN h + 1 ELSE h
        m == SkipWs(line, k)
    IN  IF At(line, i) # KW THEN [ok |-> FALSE] ELSE
        [ok   |-> /\ b > a
                  /\ At(line, b) = ERR
                  /\ d > c
                  /\ At(line, e) = "="
                  /\ h > g
                  /\ At(line, m) = ";",
         end  |-> m + 1,
         name |-> Slice(line, b, d - 1),
         code |-> Slice(line, g, h - 1)]

\* BizException\.failed\s*\(\s*(\d+)L?\s*,  tried at i
MatchInline(line, i) ==
    LET a == SkipWs(line, i + 1)
        b == SkipWs(line, a + 1)
        c == RunEnd(line, b, Digit)
        k == IF At(line, c) = "L" THEN c + 1 ELSE c
        m == SkipWs(line, k)
    IN  IF At(line, i) # FAILED THEN [ok |-> FALSE] ELSE
        [ok   |-> /\ At(line, a) = "("
                  /\ c > b
                  /\ At(line, m) = ",",
         end  |-> m + 1,
         name |-> <<>>,
         code |-> Slice(line, b, c - 1)]

\* re.findall: leftmost non-overlapping matches, left to right
RECURSIVE FindAllConst(_, _)
FindAllConst(line, i) ==
    IF i > Len(line) THEN <<>>
    ELSE LET m == MatchConst(line, i) IN
         IF m.ok THEN <<m>> \o FindAllConst(line, m.end)
         ELSE FindAllConst(line, i + 1)

RECURSIVE FindAllInline(_, _)
FindAllInline(line, i) ==
    IF i > Len(line) THEN <<>>
    ELSE LET m == MatchInline(line, i) IN
         IF m.ok THEN <<m>> \o FindAllInline(line, m.end)
         ELSE FindAllInline(line, i + 1)

\* re.search(r'BizException\.failed\s*\(\s*ERROR_', line)
UsesConstant(line) ==
    \E i \in 1..Len(line) :
        LET a == SkipWs(line, i + 1) IN
        /\ At(line, i) = FAILED
        /\ At(line, a) = "("
        /\ At(line, SkipWs(line, a + 1)) = ERR

\* the location records appended for one line, constants first
ScanLine(file_path, line_num, line) ==
    LET consts  == FindAllConst(line, 1)
        inlines == IF Contains(line, <<FAILED, "(">>) /\ ~UsesConstant(line)
                   THEN FindAllInline(line, 1) ELSE <<>>
    IN  [j \in 1..Len(consts) |->
            [code |-> consts[j].code, file_path |-> file_path,
             line_num |-> line_num, constant_name |-> consts[j].name,
             is_constant_def |-> TRUE]]
        \o
        [j \in 1..Len(inlines) |->
            [code |-> inlines[j].code, file_path |-> file_path,
             line_num |-> line_num, constant_name |-> <<>>,
             is_constant_def |-> FALSE]]

RECURSIVE ScanLines(_, _, _)
ScanLines(file_path, lines, n) ==
    IF n > Len(lines) THEN <<>>
    ELSE ScanLine(file_path, n, lines[n]) \o ScanLines(file_path, lines, n + 1)

RECURSIVE ScanFiles(_, _)
ScanFiles(t, java_files) ==
    IF java_files = <<>> THEN <<>>
    ELSE ScanLines(Head(java_files), t[Head(java_files)], 1)
         \o ScanFiles(t, Tail(java_files))

----------------------------------------------------------------------------
(* File paths and traversal order *)

\* the directories find_all_error_codes globs, in the order it visits them
target_dirs ==
    << "cage-features", "gaming-table-feature", "user-features",
       "common-shared", "login-feature", "image-feature",
       "shared-infrastructure" >>

\* directory names in string order; "app" is a directory outside target_dirs
DirAlpha ==
    << "app", "cage-features", "common-shared", "gaming-table-feature",
       "image-feature", "login-feature", "shared-infrastructure",
       "user-features" >>

DirRank(d) == CHOOSE k \in 1..Len(DirAlpha) : DirAlpha[k] = d

\* a path is <<directory, file name>>; string comparison of two paths
PathLess(p, q) ==
    \/ DirRank(p[1]) < DirRank(q[1])
    \/ p[1] = q[1] /\ p[2] < q[2]

\* the key (loc.file_path, loc.line_num) compared with <
KeyLess(a, b) ==
    \/ PathLess(a.file_path, b.file_path)
    \/ a.file_path = b.file_path /\ a.line_num < b.line_num

\* all orders in which glob may return the files of S
Perms(S) ==
    {f \in [1..Cardinality(S) -> S] : \A x \in S : \E i \in DOMAIN f : f[i] = x}

RECURSIVE TargetDirFiles(_, _)
TargetDirFiles(t, k) ==
    IF k > Len(target_dirs) THEN {<<>>}
    ELSE {a \o b : a \in Perms({p \in DOMAIN t : p[1] = target_dirs[k]}),
                   b \in TargetDirFiles(t, k + 1)}

\* the possible values of java_files: target directories in order, or the
\* whole project when they hold no file
JavaFiles(t) ==
    IF \E p \in DOMAIN t : \E k \in DOMAIN target_dirs : p[1] = target_dirs[k]
    THEN TargetDirFiles(t, 1)
    ELSE Perms(DOMAIN t)

\* the index built by one scan that visits the files in the given order
find_all_error_codes(t, java_files) == ScanFiles(t, java_files)

----------------------------------------------------------------------------
(* The index as an insertion-ordered dict: code -> list of locations *)

RECURSIVE Keys(_)
Keys(index) ==
    IF index = <<>> THEN <<>>
    ELSE LET rest == Keys(SubSeq(index, 1, Len(index) - 1))
             c    == index[Len(index)].code
         IN  IF \E i \in DOMAIN rest : rest[i] = c THEN rest ELSE Append(rest, c)

RECURSIVE LocsOf(_, _)
LocsOf(index, code) ==
    IF index = <<>> THEN <<>>
    ELSE IF Head(index).code = code
         THEN <<Head(index)>> \o LocsOf(Tail(index), code)
         ELSE LocsOf(Tail(index), code)

RECURSIVE DupKeysOf(_, _)
DupKeysOf(index, keys) ==
    IF keys = <<>> THEN <<>>
    ELSE IF Len(LocsOf(index, Head(keys))) > 1
         THEN <<Head(keys)>> \o DupKeysOf(index, Tail(keys))
         ELSE DupKeysOf(index, Tail(keys))

\* the keys of find_duplicates(code_locations), in dict order
find_duplicates(index) == DupKeysOf(index, Keys(index))

get_all_existing_codes(index) == {index[i].code : i \in DOMAIN index}

----------------------------------------------------------------------------
(* generate_new_code *)

SeqLimit == 9999

\* one iteration of the `while True` loop, entered with the given counter
GenIter(counter, existing_codes, date_prefix) ==
    LET new_code == date_prefix \o Fmt(counter, 4)
        next     == counter + 1
        long     == date_prefix \o Fmt(next, 6)
    IN  IF new_code \notin existing_codes
        THEN [done |-> TRUE, code |-> new_code, counter |-> counter]
        ELSE IF next > SeqLimit /\ long \notin existing_codes
        THEN [done |-> TRUE, code |-> long, counter |-> next]
        ELSE [done |-> FALSE, code |-> <<>>, counter |-> next]

RECURSIVE GenLoop(_, _, _)
GenLoop(counter, existing_codes, date_prefix) ==
    LET r == GenIter(counter, existing_codes, date_prefix) IN
    IF r.done THEN r.code ELSE GenLoop(r.counter, existing_codes, date_prefix)

generate_new_code(existing_codes, date_prefix) ==
    GenLoop(1, existing_codes, date_prefix)

----------------------------------------------------------------------------
(* fix_duplicates *)

\* insertion of x into the sorted list s after every element not greater
RECURSIVE InsertSorted(_, _)
InsertSorted(s, x) ==
    IF s = <<>> THEN <<x>>
    ELSE IF KeyLess(x, Head(s)) THEN <<x>> \o s
    ELSE <<Head(s)>> \o InsertSorted(Tail(s), x)

\* SortLocs with the sort left out: the locations in insertion order
SortLocsUnsorted(locations) == locations

\* sorted(locations, key=lambda loc: (loc.file_path, loc.line_num)): stable
RECURSIVE SortLocs(_)
SortLocs(locations) ==
    IF locations = <<>> THEN <<>>
    ELSE InsertSorted(SortLocs(SubSeq(locations, 1, Len(locations) - 1)),
                      locations[Len(locations)])

\* the locations a pass reassigns: sorted_locations[1:] of every duplicate
RECURSIVE ToReassign(_, _)
ToReassign(index, dupkeys) ==
    IF dupkeys = <<>> THEN <<>>
    ELSE Tail(SortLocs(LocsOf(index, Head(dupkeys))))
         \o ToReassign(index, Tail(dupkeys))

\* AssignCodes without all_codes.add(new_code)
RECURSIVE AssignCodesNoAdd(_, _, _, _)
AssignCodesNoAdd(work, all_codes, dates, k) ==
    IF work = <<>> THEN <<>>
    ELSE LET location == Head(work)
             new_code == generate_new_code(all_codes, dates[k])
         IN  << [file_path |-> location.file_path,
                 line_num |-> location.line_num,
                 old_code |-> location.code,
                 new_code |-> new_code,
                 constant_name |-> location.constant_name,
                 is_constant_def |-> location.is_constant_def] >>
             \o AssignCodesNoAdd(Tail(work), all_codes, dates, k + 1)

\* the loop body of lines 181-192 over the remaining locations; dates[k] is
\* the date prefix datetime.now() yields at the k-th call
RECURSIVE AssignCodes(_, _, _, _)
AssignCodes(work, all_codes, dates, k) ==
    IF work = <<>> THEN <<>>
    ELSE LET location == Head(work)
             new_code == generate_new_code(all_codes, dates[k])
         IN  << [file_path |-> location.file_path,
                 line_num |-> location.line_num,
                 old_code |-> location.code,
                 new_code |-> new_code,
                 constant_name |-> location.constant_name,
                 is_constant_def |-> location.is_constant_def] >>
             \o AssignCodes(Tail(work), all_codes \cup {new_code}, dates, k + 1)

\* the Change Records of a pass (lines 173-192)
ComputeChanges(index, dupkeys, existing_codes, dates) ==
    AssignCodes(ToReassign(index, dupkeys), existing_codes, dates, 1)

\* PatchLine whose fallback writes the new literal without the comma
PatchLineDropComma(original_line, ch) ==
    IF ch.is_constant_def /\ ch.constant_name # <<>>
    THEN Replace1(original_line, ch.old_code \o <<"L">>, ch.new_code \o <<"L">>)
    ELSE IF Contains(original_line, <<FAILED, "(">> \o ch.old_code \o <<"L", ",">>)
    THEN Replace1(original_line,
                  <<FAILED, "(">> \o ch.old_code \o <<"L", ",">>,
                  <<FAILED, "(">> \o ch.new_code \o <<"L", ",">>)
    ELSE Replace1(original_line,
                  <<FAILED, "(">> \o ch.old_code \o <<",">>,
                  <<FAILED, "(">> \o ch.new_code \o <<"L">>)

\* lines 209-228: one change applied to its line
PatchLine(original_line, ch) ==
    IF ch.is_constant_def /\ ch.constant_name # <<>>
    THEN Replace1(original_line, ch.old_code \o <<"L">>, ch.new_code \o <<"L">>)
    ELSE IF Contains(original_line, <<FAILED, "(">> \o ch.old_code \o <<"L", ",">>)
    THEN Replace1(original_line,
                  <<FAILED, "(">> \o ch.old_code \o <<"L", ",">>,
                  <<FAILED, "(">> \o ch.new_code \o <<"L", ",">>)
    ELSE Replace1(original_line,
                  <<FAILED, "(">> \o ch.old_code \o <<",">>,
                  <<FAILED, "(">> \o ch.new_code \o <<"L", ",">>)

\* lines 208-228: the changes of one file applied in order to its lines
RECURSIVE PatchFile(_, _)
PatchFile(lines, line_changes) ==
    IF line_changes = <<>> THEN lines
    ELSE LET ch  == Head(line_changes)
             idx == ch.line_num
         IN  PatchFile([lines EXCEPT ![idx] = PatchLine(lines[idx], ch)],
                       Tail(line_changes))

RECURSIVE ChangesOfFile(_, _)
ChangesOfFile(chs, file_path) ==
    IF chs = <<>> THEN <<>>
    ELSE IF Head(chs).file_path = file_path
         THEN <<Head(chs)>> \o ChangesOfFile(Tail(chs), file_path)
         ELSE ChangesOfFile(Tail(chs), file_path)

\* lines 198-231: every file named by a change is read, patched and written
ApplyChanges(t, chs) ==
    [p \in DOMAIN t |->
        IF \E i \in DOMAIN chs : chs[i].file_path = p
        THEN PatchFile(t[p], ChangesOfFile(chs, p))
        ELSE t[p]]

\* fix_duplicates patching the files whatever dry_run says
fix_duplicates_always_patch(t, index, dupkeys, existing_codes, dates, dry_run) ==
    LET chs == ComputeChanges(index, dupkeys, existing_codes, dates) IN
    [changes |-> chs,
     tree    |-> ApplyChanges(t, chs)]

\* fix_duplicates(project_root, duplicates, existing_codes, dry_run): the
\* returned Change Records and the files it leaves on disk
fix_duplicates(t, index, dupkeys, existing_codes, dates, dry_run) ==
    LET chs == ComputeChanges(index, dupkeys, existing_codes, dates) IN
    [changes |-> chs,
     tree    |-> IF dry_run THEN t ELSE ApplyChanges(t, chs)]

----------------------------------------------------------------------------
(* Inputs of the Resolver: the clock and the scanned tree *)

\* date prefixes datetime.now() may yield during one pass, in clock order
Dates ==
    << <<"2", "0", "2", "5", "1", "2", "1", "8">>,
       <<"2", "0", "2", "5", "1", "2", "1", "9">> >>

\* the prefixes handed to n successive calls: the clock never runs backwards
DateSeqs(n) ==
    {[k \in 1..n |-> Dates[f[k]]] :
        f \in {g \in [1..n -> 1..Len(Dates)] :
                  \A i, j \in 1..n : i < j => g[i] <= g[j]}}

\* two codes already in the tree, equal to the first codes the generator tries
G1 == Dates[1] \o <<"0", "0", "0", "1">>
G2 == Dates[1] \o <<"0", "0", "0", "2">>

ConstL(c) == <<KW, WS, ERR, "X", WS, "=", WS>> \o c \o <<"L", ";">>
ConstN(c) == <<KW, WS, ERR, "X", WS, "=", WS>> \o c \o <<";">>
InlL(c)   == <<FAILED, "(">> \o c \o <<"L", ",", TXT, ")", ";">>
InlN(c)   == <<FAILED, "(">> \o c \o <<",", TXT, ")", ";">>
InlW(c)   == <<FAILED, "(", WS>> \o c \o <<"L", WS, ",", TXT, ")", ";">>
InlRef    == <<FAILED, "(", ERR, "X", ",", TXT, ")", ";">>

\* the line shapes a file may hold
LineShapes ==
    { ConstL(G1), ConstN(G1), InlL(G1), InlN(G1), InlW(G1),
      InlL(G1) \o InlL(G1),
      InlRef \o InlL(G1),
      ConstL(G2),
      <<TXT>> }

\* the files a tree may hold: three under target directories, one elsewhere
Paths ==
    { <<"common-shared", 1>>, <<"user-features", 1>>, <<"user-features", 2>>,
      <<"app", 1>> }

RECURSIVE Total(_, _)
Total(n, P) ==
    IF P = {} THEN 0
    ELSE LET p == CHOOSE q \in P : TRUE IN n[p] + Total(n, P \ {p})

\* the tree whose files P hold, in path order, n[p] lines each of the lines flat
MkTree(P, n, flat) ==
    [p \in P |->
        LET off == Total(n, {q \in P : PathLess(q, p)}) IN
        [k \in 1..n[p] |-> flat[off + k]]]

\* every tree of at most MaxFiles files, each of at least one line
Trees ==
    UNION {UNION {{MkTree(P, n, flat) : flat \in [1..Total(n, P) -> LineShapes]} :
                     n \in {m \in [P -> 1..MaxLines] : Total(m, P) <= MaxLines}} :
              P \in {Q \in SUBSET Paths : Cardinality(Q) \in 1..MaxFiles}}

----------------------------------------------------------------------------
(* The Resolver's main() *)

IdleResolver ==
    /\ tree = <<>>
    /\ tree0 = <<>>
    /\ fix = FALSE
    /\ pc = "idle"
    /\ occs = <<>>
    /\ changes = <<>>
    /\ exit_code = -1
    /\ occs2 = <<>>

IdleGen ==
    /\ gen_known = [fill |-> 0, extra |-> {}]
    /\ gen_prefix = <<>>
    /\ gen_counter = 0
    /\ gen_pc = "idle"
    /\ gen_result = <<>>

IdleRewriter ==
    /\ w_disk = <<>>
    /\ w_pc = "idle"
    /\ w_args = <<>>
    /\ w_files = <<>>
    /\ w_idx = 0
    /\ w_counter = 0
    /\ w_exit = -1
    /\ w_run = 0
    /\ w_hist = <<>>

InitResolver ==
    /\ IdleGen
    /\ IdleRewriter
    /\ tree \in Trees
    /\ tree0 = tree
    /\ fix \in BOOLEAN
    /\ pc = "start"
    /\ occs = <<>>
    /\ changes = <<>>
    /\ exit_code = -1
    /\ occs2 = <<>>

\* lines 320-327: scan, find the duplicates, print the report
Scan ==
    /\ pc = "start"
    /\ \E java_files \in JavaFiles(tree) :
           occs' = find_all_error_codes(tree, java_files)
    /\ pc' = "scanned"
    /\ UNCHANGED <<tree, tree0, fix, changes, exit_code, occs2, gvars, wvars>>

\* lines 329-330
NoDuplicates ==
    /\ pc = "scanned"
    /\ find_duplicates(occs) = <<>>
    /\ exit_code' = 0
    /\ pc' = "exited"
    /\ UNCHANGED <<tree, tree0, fix, occs, changes, occs2, gvars, wvars>>

\* lines 332-343 and 348
FixRun ==
    /\ pc = "scanned"
    /\ find_duplicates(occs) # <<>>
    /\ fix
    /\ LET duplicates == find_duplicates(occs) IN
       \E dates \in DateSeqs(Len(ToReassign(occs, duplicates))) :
           LET r == fix_duplicates(tree, occs, duplicates,
                                   get_all_existing_codes(occs), dates, FALSE)
           IN  /\ changes' = r.changes
               /\ tree' = r.tree
               /\ exit_code' = IF duplicates # <<>> THEN 1 ELSE 0
    /\ pc' = "exited"
    /\ UNCHANGED <<tree0, fix, occs, occs2, gvars, wvars>>

\* lines 344-348
CheckOnly ==
    /\ pc = "scanned"
    /\ find_duplicates(occs) # <<>>
    /\ ~fix
    /\ exit_code' = IF find_duplicates(occs) # <<>> THEN 1 ELSE 0
    /\ pc' = "exited"
    /\ UNCHANGED <<tree, tree0, fix, occs, changes, occs2, gvars, wvars>>

\* a later scan of the tree a fix-mode run left behind
Rescan ==
    /\ pc = "exited"
    /\ fix
    /\ \E java_files \in JavaFiles(tree) :
           occs2' = find_all_error_codes(tree, java_files)
    /\ pc' = "rescanned"
    /\ UNCHANGED <<tree, tree0, fix, occs, changes, exit_code, gvars, wvars>>

NextResolver == Scan \/ NoDuplicates \/ FixRun \/ CheckOnly \/ Rescan

ResolverSpec == InitResolver /\ [][NextResolver]_vars

----------------------------------------------------------------------------
(* Properties of the Resolver *)

FixDone == pc \in {"exited", "rescanned"} /\ fix

\* the codes of the run's index that have more than one location
DupCodes == {c \in get_all_existing_codes(occs) : Len(LocsOf(occs, c)) > 1}

SameKey(a, b) == a.file_path = b.file_path /\ a.line_num = b.line_num

NumLocsAt(locs, k) == Cardinality({j \in DOMAIN locs : SameKey(locs[j], k)})

NumChangesAt(code, k) ==
    Cardinality({i \in DOMAIN changes :
                    changes[i].old_code = code /\ SameKey(changes[i], k)})

\* C1 (as claimed): after a fix-mode run, a re-scan of the tree finds every
\* code at exactly one location.
C1_RescanHasNoDuplicates ==
    (pc = "rescanned" /\ fix) => find_duplicates(occs2) = <<>>

\* C2: for every duplicated code the location left without a Change Record is
\* one with the smallest (file path, line number) of its group, whatever the
\* insertion order, and every other location of the group has exactly one.
C2_KeptIsSmallest ==
    FixDone =>
        \A code \in DupCodes :
            LET locs == LocsOf(occs, code) IN
            \E m \in DOMAIN locs :
                /\ \A j \in DOMAIN locs : ~KeyLess(locs[j], locs[m])
                /\ \A j \in DOMAIN locs :
                       NumChangesAt(code, locs[j]) =
                           NumLocsAt(locs, locs[j])
                           - (IF SameKey(locs[j], locs[m]) THEN 1 ELSE 0)

\* a fix-mode run has reassigned a group whose first inserted location is not
\* its smallest one
C2_Witness ==
    /\ FixDone
    /\ changes # <<>>
    /\ \E code \in DupCodes :
           LET locs == LocsOf(occs, code) IN
           \E j \in DOMAIN locs : KeyLess(locs[j], locs[1])

\* C3: the new codes of the Change Records of one pass are pairwise distinct
\* and none of them is a code of the pre-run index.
C3_NewCodesFresh ==
    FixDone =>
        /\ \A i, j \in DOMAIN changes :
               i # j => changes[i].new_code # changes[j].new_code
        /\ \A i \in DOMAIN changes :
               changes[i].new_code \notin get_all_existing_codes(occs)

\* a pass that generated two codes on the day whose first code was taken
C3_Witness ==
    /\ FixDone
    /\ Len(changes) >= 2
    /\ G1 \in get_all_existing_codes(occs)
    /\ changes[1].new_code = Dates[1] \o <<"0", "0", "0", "2">>
    /\ changes[2].new_code = Dates[1] \o <<"0", "0", "0", "3">>

\* C9: after a fix-mode run the re-scanned index has as many occurrences as
\* the index the run started from.
C9_OccurrencesPreserved ==
    (pc = "rescanned" /\ fix) => Len(occs2) = Len(occs)

\* a re-scan after a run that patched an inline literal without L suffix
\* through the fallback pattern
C9_Witness ==
    /\ pc = "rescanned"
    /\ fix
    /\ \E i \in DOMAIN changes :
           LET ch  == changes[i]
               old == tree0[ch.file_path][ch.line_num]
               new == tree[ch.file_path][ch.line_num]
           IN  /\ ~ch.is_constant_def
               /\ ~Contains(old, <<FAILED, "(">> \o ch.old_code \o <<"L", ",">>)
               /\ Contains(old, <<FAILED, "(">> \o ch.old_code \o <<",">>)
               /\ Contains(new, <<FAILED, "(">> \o ch.new_code \o <<"L", ",">>)

----------------------------------------------------------------------------
(* generate_new_code run on its own, one loop iteration per step *)

RECURSIVE Val(_)
\* the number a string of digits denotes
Val(s) ==
    IF s = <<>> THEN 0
    ELSE 10 * Val(SubSeq(s, 1, Len(s) - 1))
         + (CHOOSE d \in 0..9 : DigitChar(d) = s[Len(s)])

\* membership in the set of known codes that `known` stands for: the 4-digit
\* codes of 1..known.fill under the prefix, and the codes of known.extra
InKnown(c, known, date_prefix) ==
    \/ c \in known.extra
    \/ /\ Len(c) = Len(date_prefix) + 4
       /\ SubSeq(c, 1, Len(date_prefix)) = date_prefix
       /\ Val(SubSeq(c, Len(date_prefix) + 1, Len(c))) \in 1..known.fill

KnownSet(known, date_prefix) ==
    {c \in Seq(Digit) : InKnown(c, known, date_prefix)}

GenFills == {0, 2, SeqLimit}

GenExtras(date_prefix) ==
    {date_prefix \o Fmt(4, 4)}
    \cup {date_prefix \o Fmt(n, 6) : n \in (SeqLimit + 1)..(SeqLimit + MaxFallback)}
    \cup {date_prefix \o Fmt(n, 4) : n \in (SeqLimit + 1)..(SeqLimit + MaxFallback)}

InitGen ==
    /\ IdleResolver
    /\ IdleRewriter
    /\ gen_prefix = Dates[1]
    /\ gen_known \in [fill : GenFills, extra : SUBSET GenExtras(Dates[1])]
    /\ gen_counter = 1
    /\ gen_pc = "loop"
    /\ gen_result = <<>>

\* lines 149-158: one pass through the body of the while loop
GenStep ==
    /\ gen_pc = "loop"
    /\ LET r == GenIter(gen_counter, KnownSet(gen_known, gen_prefix), gen_prefix)
       IN  /\ gen_counter' = r.counter
           /\ gen_result' = r.code
           /\ gen_pc' = IF r.done THEN "returned" ELSE "loop"
    /\ UNCHANGED <<gen_known, gen_prefix, rvars, wvars>>

NextGen == GenStep

GenSpec == InitGen /\ [][NextGen]_vars

\* the smallest n of lo..hi whose w-digit code is not known, 0 if there is none
FirstFree(lo, hi, w) ==
    LET free == {n \in lo..hi :
                    ~InKnown(gen_prefix \o Fmt(n, w), gen_known, gen_prefix)}
    IN  IF free = {} THEN 0 ELSE CHOOSE n \in free : \A m \in free : n <= m

\* C8 (as claimed): generate_new_code returns the 4-digit code of the smallest
\* free n of 1..9999 and, when none is free, the 6-digit code of the smallest
\* n >= 10000 whose 6-digit code is free.
C8_SmallestFreeCode ==
    gen_pc = "returned" =>
        LET n4 == FirstFree(1, SeqLimit, 4)
            n6 == FirstFree(SeqLimit + 1,
                            SeqLimit + 1 + Cardinality(gen_known.extra), 6)
        IN  gen_result = IF n4 # 0 THEN gen_prefix \o Fmt(n4, 4)
                         ELSE gen_prefix \o Fmt(n6, 6)

----------------------------------------------------------------------------
(* Java text as token sequences (Rewriter) *)

NL        == "\n"
THROW     == "throw "
NEWKW     == "new "
IAE       == "IllegalArgumentException"
BIZ       == "BizException"
BADREQ    == ".badRequest"
DOTFAILED == ".failed"
ATTHROWS  == "@throws"
IMPORT    == "import "
PACKAGE   == "package "
EXCPKG    == "com.alliance.casino.common.exception."
IDENT     == "x"

BIZ_EXCEPTION_IMPORT == <<IMPORT, EXCPKG, BIZ, ";">>

\* the directories scanned when --dirs is not given
DEFAULT_DIRS ==
    << "cage-features", "user-features", "gaming-table-feature",
       "common-shared", "shared-infrastructure" >>

\* r'throw new IllegalArgumentException\('
ThrowPattern == <<THROW, NEWKW, IAE, "(">>

\* r'BizException\.badRequest\('
BadRequestPattern == <<BIZ, BADREQ, "(">>

MatchesAt(content, pat, i) ==
    /\ i + Len(pat) - 1 <= Len(content)
    /\ SubSeq(content, i, i + Len(pat) - 1) = pat

\* f"{date_prefix}{counter:05d}L"
MakeCode(date_prefix, counter) == date_prefix \o Fmt(counter, 5) \o <<"L">>

\* re.sub(pattern, replace_func, content) from position i on, where
\* replace_func returns pre + code + suf and advances the counter;
\* `used` lists the counter value of every call, in call order
RECURSIVE SubWithCodes(_, _, _, _, _, _, _)
SubWithCodes(content, i, pat, pre, suf, counter, date_prefix) ==
    IF i > Len(content)
    THEN [content |-> <<>>, counter |-> counter, replacements |-> 0, used |-> <<>>]
    ELSE IF MatchesAt(content, pat, i)
    THEN LET code == MakeCode(date_prefix, counter)
             r == SubWithCodes(content, i + Len(pat), pat, pre, suf,
                               counter + 1, date_prefix)
         IN  [content |-> pre \o code \o suf \o r.content,
              counter |-> r.counter,
              replacements |-> r.replacements + 1,
              used |-> <<[pos |-> i, n |-> counter, code |-> code]>> \o r.used]
    ELSE LET r == SubWithCodes(content, i + 1, pat, pre, suf, counter, date_prefix)
         IN  [r EXCEPT !.content = <<content[i]>> \o r.content]

convert_illegal_argument_exception(content, counter, date_prefix) ==
    SubWithCodes(content, 1, ThrowPattern,
                 <<THROW, BIZ, DOTFAILED, "(">>, <<",">>, counter, date_prefix)

convert_biz_exception_bad_request(content, counter, date_prefix) ==
    SubWithCodes(content, 1, BadRequestPattern,
                 <<BIZ, DOTFAILED, "(">>, <<",", " ">>, counter, date_prefix)

\* re.subn(r'@throws\s+IllegalArgumentException', '@throws BizException', content)
RECURSIVE SubJavadoc(_, _)
SubJavadoc(content, i) ==
    IF i > Len(content) THEN [content |-> <<>>, count |-> 0]
    ELSE LET j == RunEnd(content, i + 1, {WS, NL}) IN
         IF At(content, i) = ATTHROWS /\ j > i + 1 /\ At(content, j) = IAE
         THEN LET r == SubJavadoc(content, j + 1) IN
              [content |-> <<ATTHROWS, WS, BIZ>> \o r.content,
               count |-> r.count + 1]
         ELSE LET r == SubJavadoc(content, i + 1) IN
              [r EXCEPT !.content = <<content[i]>> \o r.content]

update_javadoc_throws(content) == SubJavadoc(content, 1)

has_biz_exception_import(content) == Contains(content, BIZ_EXCEPTION_IMPORT)

\* content.split('\n')
RECURSIVE Split(_)
Split(content) ==
    LET i == Find(content, <<NL>>, 1) IN
    IF i = 0 THEN <<content>>
    ELSE <<SubSeq(content, 1, i - 1)>>
         \o Split(SubSeq(content, i + 1, Len(content)))

\* '\n'.join(lines)
RECURSIVE Join(_)
Join(lines) ==
    IF Len(lines) = 1 THEN lines[1]
    ELSE lines[1] \o <<NL>> \o Join(Tail(lines))

\* line.strip() == ''
IsBlank(line) == \A k \in DOMAIN line : line[k] = WS

StartsWith(line, tok) == Len(line) >= 1 /\ line[1] = tok

RECURSIVE SkipBlank(_, _)
SkipBlank(lines, p) ==
    IF p <= Len(lines) /\ IsBlank(lines[p]) THEN SkipBlank(lines, p + 1) ELSE p

\* the 1-based position before which the import line is inserted, 0 if none
InsertIndex(lines) ==
    LET imports  == {i \in DOMAIN lines : StartsWith(lines[i], IMPORT)}
        packages == {i \in DOMAIN lines : StartsWith(lines[i], PACKAGE)}
    IN  IF imports # {}
        THEN (CHOOSE i \in imports : \A k \in imports : k <= i) + 1
        ELSE IF packages # {}
        THEN SkipBlank(lines, (CHOOSE i \in packages : \A k \in packages : i <= k) + 1)
        ELSE 0

\* add_import_if_needed without the check for an import already present
add_import_unchecked(content) ==
    LET lines == Split(content)
        p     == InsertIndex(lines)
    IN  IF p # 0
        THEN [content |-> Join(SubSeq(lines, 1, p - 1)
                               \o <<BIZ_EXCEPTION_IMPORT>>
                               \o SubSeq(lines, p, Len(lines))),
              added |-> TRUE]
        ELSE [content |-> content, added |-> FALSE]

add_import_if_needed(content) ==
    IF has_biz_exception_import(content)
    THEN [content |-> content, added |-> FALSE]
    ELSE LET lines == Split(content)
             p     == InsertIndex(lines)
         IN  IF p # 0
             THEN [content |-> Join(SubSeq(lines, 1, p - 1)
                                    \o <<BIZ_EXCEPTION_IMPORT>>
                                    \o SubSeq(lines, p, Len(lines))),
                   added |-> TRUE]
             ELSE [content |-> content, added |-> FALSE]

\* process_file handing the counter it was called with to both conversions
process_file_same_counter(original_content, counter, date_prefix, dry_run) ==
    LET a == convert_illegal_argument_exception(original_content, counter, date_prefix)
        b == convert_biz_exception_bad_request(a.content, counter, date_prefix)
        j == update_javadoc_throws(b.content)
        m == IF a.replacements > 0 \/ b.replacements > 0
             THEN add_import_if_needed(j.content)
             ELSE [content |-> j.content, added |-> FALSE]
    IN  [counter |-> b.counter,
         stats |-> [illegal_arg |-> a.replacements,
                    bad_request |-> b.replacements,
                    javadoc |-> j.count,
                    import_added |-> m.added,
                    modified |-> m.content # original_content],
         content |-> m.content,
         written |-> m.content # original_content /\ ~dry_run,
         throws |-> a.used,
         bads |-> b.used]

\* process_file on the text read from filepath: the returned counter and
\* stats, the final text, and the counter values the two conversions used
process_file(original_content, counter, date_prefix, dry_run) ==
    LET a == convert_illegal_argument_exception(original_content, counter, date_prefix)
        b == convert_biz_exception_bad_request(a.content, a.counter, date_prefix)
        j == update_javadoc_throws(b.content)
        m == IF a.replacements > 0 \/ b.replacements > 0
             THEN add_import_if_needed(j.content)
             ELSE [content |-> j.content, added |-> FALSE]
    IN  [counter |-> b.counter,
         stats |-> [illegal_arg |-> a.replacements,
                    bad_request |-> b.replacements,
                    javadoc |-> j.count,
                    import_added |-> m.added,
                    modified |-> m.content # original_content],
         content |-> m.content,
         written |-> m.content # original_content /\ ~dry_run,
         throws |-> a.used,
         bads |-> b.used]

----------------------------------------------------------------------------
(* Inputs of the Rewriter: the command line and the disk *)

\* values of --date: a date, and three malformed values
DateArgs ==
    { Dates[1],
      Dates[1] \o <<NL>>,
      SubSeq(Dates[1], 1, 7),
      SubSeq(Dates[1], 1, 7) \o <<IDENT>> }

\* values of --start-counter
StartCounters == {1, 99999}

\* values of --dirs
DirArgs == {DEFAULT_DIRS, <<"user-features", "user-features">>}

\* re.match(r'^\d{8}$', date): $ also matches before a final newline
DateMatches(date) ==
    /\ Len(date) >= 8
    /\ \A k \in 1..8 : date[k] \in Digit
    /\ \/ Len(date) = 8
       \/ Len(date) = 9 /\ date[9] = NL

\* parse_args(): the command lines tried
CommandLines ==
    {[date |-> Dates[1], dry_run |-> TRUE, start_counter |-> 1,
      dirs |-> DEFAULT_DIRS]}
    \cup {[date |-> Dates[1], dry_run |-> FALSE, start_counter |-> x[1],
           dirs |-> x[2]] :
             x \in {y \in StartCounters \X DirArgs :
                       y[1] = 1 \/ y[2] = DEFAULT_DIRS}}
    \cup {[date |-> date, dry_run |-> TRUE, start_counter |-> 1,
           dirs |-> DEFAULT_DIRS] : date \in DateArgs}

Fragments ==
    { <<THROW, NEWKW, IAE, "(", IDENT, NL>>,
      <<BIZ, BADREQ, "(", IDENT, NL>>,
      <<ATTHROWS, WS, IAE>>,
      <<BADREQ, "(", IDENT, NL>>,
      BIZ_EXCEPTION_IMPORT \o <<NL>>,
      <<IMPORT, IDENT, ";", NL>>,
      <<PACKAGE, IDENT, ";", NL, NL>> }

RECURSIVE Flatten(_)
Flatten(ss) == IF ss = <<>> THEN <<>> ELSE Head(ss) \o Flatten(Tail(ss))

\* the disk whose files P hold, in path order, n[p] of the fragments frags each
MkDisk(P, n, frags) ==
    [p \in P |->
        LET off == Total(n, {q \in P : PathLess(q, p)}) IN
        Flatten([k \in 1..n[p] |-> frags[off + k]])]

\* the files the disk may hold
WPaths == { <<"common-shared", 1>>, <<"user-features", 1>> }

\* every disk of at most MaxFiles files and MaxFrags fragments in all
Disks ==
    UNION {UNION {{MkDisk(P, n, frags) : frags \in [1..Total(n, P) -> Fragments]} :
                     n \in {m \in [P -> 0..MaxFrags] : Total(m, P) <= MaxFrags}} :
              P \in {Q \in SUBSET WPaths : Cardinality(Q) \in 1..MaxFiles}}

----------------------------------------------------------------------------
(* The Rewriter's main() *)

\* the orders in which the rglob calls of find_java_files may list the files
RECURSIVE Listings(_, _, _)
Listings(disk, directories, k) ==
    IF k > Len(directories) THEN {<<>>}
    ELSE {a \o b : a \in Perms({p \in DOMAIN disk : p[1] = directories[k]}),
                   b \in Listings(disk, directories, k + 1)}

RECURSIVE InsertPath(_, _)
InsertPath(s, x) ==
    IF s = <<>> THEN <<x>>
    ELSE IF PathLess(x, Head(s)) THEN <<x>> \o s
    ELSE <<Head(s)>> \o InsertPath(Tail(s), x)

\* sorted(java_files)
RECURSIVE SortedPaths(_)
SortedPaths(java_files) ==
    IF java_files = <<>> THEN <<>>
    ELSE InsertPath(SortedPaths(SubSeq(java_files, 1, Len(java_files) - 1)),
                    java_files[Len(java_files)])

\* find_java_files returning the files in the order they were listed
find_java_files_unsorted(listing) == listing

find_java_files(listing) == SortedPaths(listing)

InitRewriter ==
    /\ IdleResolver
    /\ IdleGen
    /\ w_disk \in Disks
    /\ w_pc = "start"
    /\ w_args = <<>>
    /\ w_files = <<>>
    /\ w_idx = 0
    /\ w_counter = 0
    /\ w_exit = -1
    /\ w_run = 1
    /\ w_hist = <<>>

\* lines 218-223: a --date value the pattern rejects
BadDate ==
    /\ w_pc = "start"
    /\ \E args \in CommandLines :
           /\ ~DateMatches(args.date)
           /\ w_args' = args
    /\ w_exit' = 1
    /\ w_pc' = "done"
    /\ UNCHANGED <<w_disk, w_files, w_idx, w_counter, w_run, w_hist, rvars, gvars>>

\* lines 218-238
Start ==
    /\ w_pc = "start"
    /\ \E args \in CommandLines :
           /\ DateMatches(args.date)
           /\ w_args' = args
           /\ w_counter' = args.start_counter
           /\ \E listing \in Listings(w_disk, args.dirs, 1) :
                  w_files' = find_java_files(listing)
    /\ w_idx' = 1
    /\ w_pc' = "files"
    /\ UNCHANGED <<w_disk, w_exit, w_run, w_hist, rvars, gvars>>

\* lines 249-271: one iteration of the loop over java_files
ProcessNext ==
    /\ w_pc = "files"
    /\ w_idx <= Len(w_files)
    /\ LET filepath == w_files[w_idx]
           r == process_file(w_disk[filepath], w_counter,
                             w_args.date, w_args.dry_run)
       IN  /\ w_counter' = r.counter
           /\ w_disk' = IF r.written THEN [w_disk EXCEPT ![filepath] = r.content]
                        ELSE w_disk
           /\ w_hist' = Append(w_hist,
                  [run |-> w_run, filepath |-> filepath,
                   dry_run |-> w_args.dry_run,
                   before |-> w_disk[filepath], after |-> r.content,
                   counter_in |-> w_counter, counter_out |-> r.counter,
                   stats |-> r.stats, throws |-> r.throws, bads |-> r.bads,
                   written |-> r.written])
    /\ w_idx' = w_idx + 1
    /\ UNCHANGED <<w_pc, w_args, w_files, w_exit, w_run, rvars, gvars>>

\* lines 273-286
Finish ==
    /\ w_pc = "files"
    /\ w_idx > Len(w_files)
    /\ w_exit' = 0
    /\ w_pc' = "done"
    /\ UNCHANGED <<w_disk, w_args, w_files, w_idx, w_counter, w_run, w_hist, rvars, gvars>>

\* the same command line run once more over the files a write-mode run left
RunAgain ==
    /\ w_pc = "done"
    /\ w_exit = 0
    /\ w_run = 1
    /\ ~w_args.dry_run
    /\ w_counter' = w_args.start_counter
    /\ \E listing \in Listings(w_disk, w_args.dirs, 1) :
           w_files' = find_java_files(listing)
    /\ w_idx' = 1
    /\ w_run' = 2
    /\ w_pc' = "files"
    /\ UNCHANGED <<w_disk, w_args, w_exit, w_hist, rvars, gvars>>

NextRewriter == BadDate \/ Start \/ ProcessNext \/ Finish \/ RunAgain

RewriterSpec == InitRewriter /\ [][NextRewriter]_vars

----------------------------------------------------------------------------
(* Properties of the Rewriter *)

\* start positions of the matches re.sub finds for pat in content from i on
RECURSIVE MatchPositions(_, _, _)
MatchPositions(content, pat, i) ==
    IF i > Len(content) THEN <<>>
    ELSE IF MatchesAt(content, pat, i)
    THEN <<i>> \o MatchPositions(content, pat, i + Len(pat))
    ELSE MatchPositions(content, pat, i + 1)

ThrowSites(h) == MatchPositions(h.before, ThrowPattern, 1)
BadSites(h)   == MatchPositions(h.before, BadRequestPattern, 1)

\* the counter values one process_file call used, in the order it used them
UsedBy(h) == h.throws \o h.bads

\* the call sites one process_file call converted: rule, position in the text
\* the call read, and counter value received
ConvertedSites(h) ==
    {[rule |-> "throw", pos |-> h.throws[k].pos, n |-> h.throws[k].n] :
        k \in DOMAIN h.throws}
    \cup
    {[rule |-> "bad", pos |-> BadSites(h)[k], n |-> h.bads[k].n] :
        k \in DOMAIN h.bads \cap DOMAIN BadSites(h)}

Substitutions(h) == h.stats.illegal_arg + h.stats.bad_request

\* C4: a process_file call on a text with N throw-style and M bad-request-style
\* matches, entered with counter c, uses c, c+1, ..., c+N+M-1 once each and
\* returns c+N+M; over a run the counter never decreases and no two generated
\* codes are equal.
C4_CounterConsumption ==
    /\ \A i \in DOMAIN w_hist :
           LET h  == w_hist[i]
               nm == Len(ThrowSites(h)) + Len(BadSites(h))
           IN  /\ Len(UsedBy(h)) = nm
               /\ \A k \in DOMAIN UsedBy(h) : UsedBy(h)[k].n = h.counter_in + k - 1
               /\ h.counter_out = h.counter_in + nm
    /\ \A i, j \in DOMAIN w_hist :
           (i < j /\ w_hist[i].run = w_hist[j].run) =>
               /\ w_hist[i].counter_out <= w_hist[j].counter_in
               /\ \A a \in DOMAIN UsedBy(w_hist[i]), b \in DOMAIN UsedBy(w_hist[j]) :
                      /\ UsedBy(w_hist[i])[a].n # UsedBy(w_hist[j])[b].n
                      /\ UsedBy(w_hist[i])[a].code # UsedBy(w_hist[j])[b].code

\* a run has converted matches of both rules, in two files
C4_Witness ==
    \E i, j \in DOMAIN w_hist :
        /\ i < j
        /\ w_hist[i].run = w_hist[j].run
        /\ w_hist[i].filepath # w_hist[j].filepath
        /\ Substitutions(w_hist[i]) >= 1
        /\ Substitutions(w_hist[j]) >= 1
        /\ \E k \in {i, j} : w_hist[k].stats.illegal_arg >= 1
        /\ \E k \in {i, j} : w_hist[k].stats.bad_request >= 1

\* C5 (as claimed): of two call sites converted in one run, the one in the
\* earlier file of sorted order, or the one nearer the top of the same file,
\* receives the smaller counter value, whichever rule converted it.
C5_OrderedByFileAndPosition ==
    \A i, j \in DOMAIN w_hist :
        w_hist[i].run = w_hist[j].run =>
            \A a \in ConvertedSites(w_hist[i]), b \in ConvertedSites(w_hist[j]) :
                (\/ PathLess(w_hist[i].filepath, w_hist[j].filepath)
                 \/ i = j /\ a.pos < b.pos)
                => a.n < b.n

\* C5 (amended): counter values are ordered by (file path, rule, position):
\* the earlier file of sorted order comes first; within one process_file call
\* every throw-style site comes before every bad-request-style site, and the
\* sites of one rule are numbered top to bottom.
C5_OrderedByFileRulePosition ==
    \A i, j \in DOMAIN w_hist :
        w_hist[i].run = w_hist[j].run =>
            \A a \in ConvertedSites(w_hist[i]), b \in ConvertedSites(w_hist[j]) :
                (\/ PathLess(w_hist[i].filepath, w_hist[j].filepath)
                 \/ i = j /\ a.rule = "throw" /\ b.rule = "bad"
                 \/ i = j /\ a.rule = b.rule /\ a.pos < b.pos)
                => a.n < b.n

\* a call converted a bad-request-style site that stands above a throw-style
\* site of the same file
C5_Witness ==
    \E i \in DOMAIN w_hist :
        \E a, b \in ConvertedSites(w_hist[i]) :
            a.rule = "throw" /\ b.rule = "bad" /\ b.pos < a.pos

HasInsertionPoint(content) ==
    \E k \in DOMAIN Split(content) :
        \/ StartsWith(Split(content)[k], IMPORT)
        \/ StartsWith(Split(content)[k], PACKAGE)

\* C6 (as claimed): the import line is inserted exactly when the file had a
\* substitution and did not hold the import line already.
C6_ImportIffSubstituted ==
    \A i \in DOMAIN w_hist :
        LET h == w_hist[i] IN
        h.stats.import_added <=>
            (Substitutions(h) >= 1 /\ ~has_biz_exception_import(h.before))

\* C6 (amended): ... and the text has a line starting with `import ` or
\* `package ` after which the line can be inserted.
C6_ImportIffSubstitutedAndInsertable ==
    \A i \in DOMAIN w_hist :
        LET h == w_hist[i] IN
        h.stats.import_added <=>
            (/\ Substitutions(h) >= 1
             /\ ~has_biz_exception_import(h.before)
             /\ HasInsertionPoint(h.before))

\* a call inserted the import line into a text that lacked it
C6_Witness ==
    \E i \in DOMAIN w_hist :
        /\ w_hist[i].stats.import_added
        /\ ~has_biz_exception_import(w_hist[i].before)
        /\ has_biz_exception_import(w_hist[i].after)

\* C7 (as claimed): process_file applied to the text an earlier process_file
\* call produced makes no throw-style or bad-request-style substitution,
\* returns the counter it was given, adds no import and leaves the text as
\* it is.
C7_SecondPassChangesNothing ==
    \A i, j \in DOMAIN w_hist :
        (/\ i < j
         /\ w_hist[i].filepath = w_hist[j].filepath
         /\ \A k \in (i + 1)..(j - 1) : w_hist[k].filepath # w_hist[i].filepath
         /\ w_hist[j].before = w_hist[i].after)
        => /\ w_hist[j].stats.illegal_arg = 0
           /\ w_hist[j].stats.bad_request = 0
           /\ w_hist[j].counter_out = w_hist[j].counter_in
           /\ ~w_hist[j].stats.import_added
           /\ w_hist[j].after = w_hist[j].before

ExactlyEightDigits(date) == Len(date) = 8 /\ \A k \in 1..8 : date[k] \in Digit

\* C10 (as claimed): the Resolver exits 0 when it finds no duplicate or when
\* --fix reassigned every duplicate, and nonzero when it finds duplicates
\* without --fix; the Rewriter exits 1 on a --date that is not exactly eight
\* digits and 0 otherwise.
C10_ExitStatus ==
    /\ pc \in {"exited", "rescanned"} =>
           /\ DupCodes = {} => exit_code = 0
           /\ (DupCodes # {} /\ ~fix) => exit_code # 0
    /\ (pc = "rescanned" /\ fix /\ DupCodes # {} /\ find_duplicates(occs2) = <<>>)
           => exit_code = 0
    /\ w_pc = "done" =>
           w_exit = IF ExactlyEightDigits(w_args.date) THEN 0 ELSE 1

----------------------------------------------------------------------------
(* Either tool started on its inputs *)

InitTools == InitResolver \/ InitRewriter

NextTools == NextResolver \/ NextRewriter

ToolsSpec == InitTools /\ [][NextTools]_vars

\* one step of the Rewriter: process_file writes only in write mode and only a
\* text that differs from the one it read, and nothing else touches the disk
RewriterWritesOnlyChanges ==
    IF w_hist' # w_hist
    THEN LET h == w_hist'[Len(w_hist')] IN
         /\ h.written => (~h.dry_run /\ h.after # h.before)
         /\ w_disk' = IF h.written
                       THEN [w_disk EXCEPT ![h.filepath] = h.after]
                       ELSE w_disk
    ELSE w_disk' = w_disk

\* one fix-mode step of the Resolver: the dry-run call on the same index,
\* existing codes and clock returns the same Change Records and leaves the
\* tree as it was
PreviewAgrees ==
    (pc = "scanned" /\ pc' = "exited" /\ fix) =>
        LET duplicates == find_duplicates(occs)
            existing_codes == get_all_existing_codes(occs)
        IN  \A dates \in DateSeqs(Len(ToReassign(occs, duplicates))) :
                fix_duplicates(tree, occs, duplicates, existing_codes,
                               dates, FALSE).changes = changes'
                => fix_duplicates(tree, occs, duplicates, existing_codes,
                                  dates, TRUE)
                       = [changes |-> changes', tree |-> tree]

\* C11: process_file with dry_run=True never writes a file, and in write mode
\* writes a file only when its final text differs from its original text;
\* fix_duplicates with dry_run=True returns the Change Records the
\* non-dry-run call returns on the same inputs and leaves every file as it was.
C11_NoWriteModes == [][RewriterWritesOnlyChanges /\ PreviewAgrees]_vars

\* a preview run has processed a file whose text the conversions change
C11_Witness ==
    /\ w_pc = "done"
    /\ w_exit = 0
    /\ w_args.dry_run
    /\ \E j \in DOMAIN w_hist :
           /\ w_hist[j].after # w_hist[j].before
           /\ ~w_hist[j].written

----------------------------------------------------------------------------
(* The report against the fix *)

\* print_report, lines 278-280: the marker printed beside each location of
\* the code's list, in list order
print_report(index, code) ==
    [i \in DOMAIN LocsOf(index, code) |-> IF i = 1 THEN "keep" ELSE "change"]

\* the locations of the list that share the file and line of locs[i] and
\* carry the given marker
NumMarkedAt(locs, markers, i, marker) ==
    Cardinality({j \in DOMAIN locs :
                    SameKey(locs[j], locs[i]) /\ markers[j] = marker})

\* C12 (as claimed): the index lists each code's locations in sorted file
\* path order and then line order, so for every duplicated code the location
\* the report marks as kept is the one the fix leaves without a Change Record
\* and every location the report marks as to be changed has one, also when
\* the files lie in several target directories.
C12_ReportAgreesWithFix ==
    FixDone =>
        \A code \in DupCodes :
            LET locs    == LocsOf(occs, code)
                markers == print_report(occs, code)
            IN  /\ \A i, j \in DOMAIN locs :
                       i < j => ~KeyLess(locs[j], locs[i])
                /\ \A i \in DOMAIN locs :
                       NumChangesAt(code, locs[i]) =
                           NumMarkedAt(locs, markers, i, "change")

====
